---- MODULE Spec2Model ----
(***************************************************************************)
(* SafeSend: a stop-and-wait, resumable file transfer over a stream        *)
(* socket.  The model covers sender.py (handshake, send_file), receiver.py *)
(* (handle_client and the resume-state helpers), protocol.py and           *)
(* util/crc32.py, for one logical filename.                                *)
(*                                                                         *)
(* A byte is a number in 0..255.  An unsigned 32-bit wire field ("I" of    *)
(* struct.pack) is written as its two big-endian 16-bit halves <<hi, lo>>, *)
(* because the all-bits-set word 0xFFFFFFFF does not fit the integers of   *)
(* TLC.  The two directions of the TCP connection are FIFO queues of       *)
(* records: one record per control line, per chunk (header+payload) and    *)
(* per ack.                                                                *)
(***************************************************************************)
EXTENDS Integers, Sequences, FiniteSets, TLC

\* ------------------------------------------------------------------ bounds
\* Largest source file, in bytes.
MaxFileSize == 5
\* Largest number of chunk copies and acks in the connection at once when a
\* receive timeout fires (a further timeout needs one of them consumed).
MaxOutstanding == 2
\* Largest number of sender runs (send_file invocations) in a behaviour.
MaxRuns == 2
\* Value at which the per-chunk transmission counters stop counting.
CountCap == 3

\* --------------------------------------------------------- program constants
\* protocol.py: PROTOCOL_VERSION = 1
PROTOCOL_VERSION == 1
\* protocol.py: CHUNK_SIZE = 64 * 1024, scaled down to two bytes: a file of
\* MaxFileSize bytes then takes three chunks, the last one short.
CHUNK_SIZE == 2

\* ------------------------------------------------------------- 16-bit words
RECURSIVE XorBits(_, _, _)
\* Bitwise exclusive or of the low n bits of a and b.
XorBits(a, b, n) ==
    IF n = 0 THEN 0
    ELSE ((a + b) % 2) + 2 * XorBits(a \div 2, b \div 2, n - 1)

Xor16(a, b) == XorBits(a, b, 16)

\* struct.pack("!I", n) for 0 <= n < 2^31: the big-endian halves.
PackU32(n) == <<n \div 65536, n % 65536>>
\* struct.unpack("!I", w) for a word below 2^31.
UnpackU32(w) == w[1] * 65536 + w[2]
\* 0xFFFFFFFF, the word receiver.py packs when last_acked < 0.
ALL_BITS_SET == <<65535, 65535>>

\* ---------------------------------------------------------------- wire format
\* The struct module for the formats the program uses: "!" is network byte
\* order with no padding; a format is the sequence of its field codes.
\* receiver.py 10 and sender.py 8: "!4s I Q I I"
CHUNK_HDR_FMT == <<"4s", "I", "Q", "I", "I">>
\* receiver.py 12 and sender.py 10: "!4s I"
ACK_FMT == <<"4s", "I">>

\* An offset field packed as a 32-bit "I", not a 64-bit "Q".
FieldSizeNarrowOffset(code) ==
    CASE code = "4s" -> 4 [] code = "I" -> 4 [] code = "Q" -> 4

\* The standard size of a field code.
FieldSize(code) ==
    CASE code = "4s" -> 4 [] code = "I" -> 4 [] code = "Q" -> 8

RECURSIVE calcsize(_)
\* struct.calcsize
calcsize(fmt) ==
    IF fmt = <<>> THEN 0
    ELSE calcsize(SubSeq(fmt, 1, Len(fmt) - 1)) + FieldSize(fmt[Len(fmt)])

\* receiver.py 11 and sender.py 9
CHUNK_HDR_SIZE == calcsize(CHUNK_HDR_FMT)

RECURSIVE BigEndian(_, _)
\* The w low bytes of n, most significant first.
BigEndian(n, w) ==
    IF w = 0 THEN <<>> ELSE Append(BigEndian(n \div 256, w - 1), n % 256)

RECURSIVE FromBigEndian(_)
FromBigEndian(bytes) ==
    IF bytes = <<>> THEN 0
    ELSE 256 * FromBigEndian(SubSeq(bytes, 1, Len(bytes) - 1))
         + bytes[Len(bytes)]

\* The bytes of the two tags.
TagBytes(t) == IF t = "CHNK" THEN <<67, 72, 78, 75>> ELSE <<65, 67, 75, 33>>
TagOf(bytes) ==
    IF bytes = <<67, 72, 78, 75>> THEN "CHNK"
    ELSE IF bytes = <<65, 67, 75, 33>> THEN "ACK!"
    ELSE "?"

\* One field packed: a tag as it is, an "I" word <<hi, lo>> and a "Q"
\* number big-endian.
PackField(code, v) ==
    CASE code = "4s" -> TagBytes(v)
      [] code = "I" -> BigEndian(v[1], FieldSize(code) \div 2)
                       \o BigEndian(v[2], FieldSize(code) \div 2)
      [] code = "Q" -> BigEndian(v, FieldSize(code))

RECURSIVE StructPack(_, _)
\* struct.pack(fmt, *values)
StructPack(fmt, values) ==
    IF fmt = <<>> THEN <<>>
    ELSE StructPack(SubSeq(fmt, 1, Len(fmt) - 1),
                    SubSeq(values, 1, Len(fmt) - 1))
         \o PackField(fmt[Len(fmt)], values[Len(fmt)])

\* The bytes of field k of a record packed with fmt.
FieldBytes(fmt, bytes, k) ==
    SubSeq(bytes, calcsize(SubSeq(fmt, 1, k - 1)) + 1,
           calcsize(SubSeq(fmt, 1, k)))

UnpackField(code, bytes) ==
    CASE code = "4s" -> TagOf(bytes)
      [] code = "I" -> <<FromBigEndian(SubSeq(bytes, 1, 2)),
                         FromBigEndian(SubSeq(bytes, 3, 4))>>
      [] code = "Q" -> FromBigEndian(bytes)

\* struct.unpack(fmt, bytes), for bytes of calcsize(fmt) length.
StructUnpack(fmt, bytes) ==
    [k \in 1..Len(fmt) |-> UnpackField(fmt[k], FieldBytes(fmt, bytes, k))]

\* -------------------------------------------------------------------- CRC-32
\* zlib.crc32: reflected polynomial 0xEDB88320, initial value and final
\* exclusive-or 0xFFFFFFFF.  A register is <<hi, lo>>.
CrcShift(r) ==
    LET hi == r[1] \div 2
        lo == (r[2] \div 2) + (r[1] % 2) * 32768
    IN  IF r[2] % 2 = 1 THEN <<Xor16(hi, 60856), Xor16(lo, 33568)>>
        ELSE <<hi, lo>>

RECURSIVE CrcRounds(_, _)
CrcRounds(r, n) == IF n = 0 THEN r ELSE CrcRounds(CrcShift(r), n - 1)

CrcByte(r, b) == CrcRounds(<<r[1], Xor16(r[2], b)>>, 8)

RECURSIVE CrcFold(_, _)
CrcFold(r, data) ==
    IF data = <<>> THEN r ELSE CrcFold(CrcByte(r, Head(data)), Tail(data))

\* zlib.crc32(data)
ZlibCrc32(data) ==
    LET r == CrcFold(<<65535, 65535>>, data)
    IN  <<65535 - r[1], 65535 - r[2]>>

\* ------------------------------------------------------------------- helpers
Min(a, b) == IF a < b THEN a ELSE b
Max(a, b) == IF a > b THEN a ELSE b

\* The source files the sender is given: one per size, every byte different
\* from the others ("A", "B", ...), so that a misplaced write shows.
FileOfSize(n) == [i \in 1..n |-> 64 + i]
Files == {FileOfSize(n) : n \in 0..MaxFileSize}

\* Sequence numbers a file of the largest size uses.
MaxChunks == (MaxFileSize + CHUNK_SIZE - 1) \div CHUNK_SIZE
SeqNos == 0..(MaxChunks - 1)

\* One bit of a byte flipped in transit: the lowest or the highest.
FlipMasks == {1, 128}
FlipByte(b, mask) == XorBits(b, mask, 8)

\* The bytes a payload on the wire can hold, and the payloads.
FileBytes == {64 + i : i \in 1..MaxFileSize}
WireBytes == FileBytes \cup {FlipByte(b, m) : b \in FileBytes, m \in FlipMasks}
RECURSIVE SeqsUpTo(_, _)
SeqsUpTo(S, n) ==
    IF n = 0 THEN {<<>>}
    ELSE LET shorter == SeqsUpTo(S, n - 1)
         IN  shorter \cup {Append(q, b) : q \in shorter, b \in S}
Payloads == SeqsUpTo(WireBytes, CHUNK_SIZE)

\* The checksums of the payloads, computed once.
CrcTable == [p \in Payloads |-> ZlibCrc32(p)]

\* util/crc32.py: zlib.crc32(data) & 0xFFFFFFFF
crc32_bytes(data) ==
    IF data \in Payloads THEN CrcTable[data] ELSE ZlibCrc32(data)

\* A file of the receiver's store: absent, or present with its bytes.
Absent == [exists |-> FALSE, data |-> <<>>]
Present(d) == [exists |-> TRUE, data |-> d]
\* The resume record (<filename>.state): absent, or the decimal offset.
NoRecord == [exists |-> FALSE, offset |-> 0]
Record(n) == [exists |-> TRUE, offset |-> n]

VARIABLES
    file,         \* the sender's source file (never written)
    spc,          \* sender: where send_file stands
    start_offset, \* sender: handshake()'s return value
    seq,          \* sender: seq of send_file
    offset,       \* sender: offset of send_file
    runs,         \* number of send_file invocations so far
    c2r,          \* stream sender -> receiver
    r2c,          \* stream receiver -> sender
    rpc,          \* receiver session: where handle_client stands
    r_start,      \* receiver session: start_offset
    expect_size,  \* receiver session: expect_size
    last_acked,   \* receiver session: last_acked
    pending,      \* receiver session: the ack computed and not yet sent
    partial,      \* data/incoming/<filename>.partial
    state,        \* data/incoming/<filename>.state
    received,     \* data/received/<filename>
    quarantine,   \* data/quarantine/<filename>
    h,            \* history of the run, read by the properties only
    conns,        \* concurrent sessions: handle_client's locals, per thread
    disk          \* concurrent sessions: the store, by path

vars == <<file, spc, start_offset, seq, offset, runs, c2r, r2c, rpc, r_start,
          expect_size, last_acked, pending, partial, state, received,
          quarantine, h, conns, disk>>

senderVars == <<spc, start_offset, seq, offset>>
sessionVars == <<rpc, r_start, expect_size, last_acked, pending>>
storeVars == <<partial, state, received, quarantine>>

\* ------------------------------------------------------------------ messages
Line(t) == [t |-> t]
HelloLine == [t |-> "HELLO", version |-> PROTOCOL_VERSION]
ResumeLine(n) == [t |-> "RESUME", offset |-> n]
MetaLine(size) == [t |-> "META", size |-> size]
\* struct.pack(ACK_FMT, b"ACK!", word)
AckRecord(word) == [t |-> "ACK!", seq |-> word]

\* A sender that reads from the start of the file whatever the resume
\* offset (no f.seek(start_offset)).
PayloadNoSeek(off) ==
    SubSeq(file, off - start_offset + 1,
           Min(off - start_offset + CHUNK_SIZE, Len(file)))

\* A sender whose read is one byte short of CHUNK_SIZE.
PayloadOneShort(off) ==
    SubSeq(file, off + 1, Min(off + CHUNK_SIZE - 1, Len(file)))

\* sender.py 73-83: the payload read at the cursor and its header.
PayloadAt(off) == SubSeq(file, off + 1, Min(off + CHUNK_SIZE, Len(file)))
\* A sender whose offset field counts from the start of the transfer, not
\* of the file.
ChunkRecordRelative(n, off) ==
    LET payload == PayloadAt(off)
    IN  [t |-> "CHNK", seq |-> PackU32(n), offset |-> off - start_offset,
         length |-> Len(payload), crc |-> crc32_bytes(payload),
         payload |-> payload, mark |-> "intact"]

ChunkRecord(n, off) ==
    LET payload == PayloadAt(off)
    IN  [t |-> "CHNK", seq |-> PackU32(n), offset |-> off,
         length |-> Len(payload), crc |-> crc32_bytes(payload),
         payload |-> payload, mark |-> "intact"]

\* sender.py 81-83 and receiver.py 159: the chunk header on the wire.
HeaderValues(m) == <<m.t, m.seq, m.offset, PackU32(m.length), m.crc>>
PackHeader(m) == StructPack(CHUNK_HDR_FMT, HeaderValues(m))
\* receiver.py 176, 189 and sender.py 91: the ack on the wire.
AckValues(a) == <<a.t, a.seq>>
PackAck(a) == StructPack(ACK_FMT, AckValues(a))

SenderActive == spc \in {"resume_wait", "ready_wait", "wait_ack", "done_wait"}
SessionActive == rpc # "closed"

\* Chunk copies and acks still in the connection.
Outstanding == Len(c2r) + Len(r2c) + (IF rpc = "ack" THEN 1 ELSE 0)

Bump(n) == Min(n + 1, CountCap)

\* --------------------------------------------------------- store, by path
\* A logical filename is a sequence of name parts ("a", then ".partial"
\* for the name a.partial); a path is a directory and a name.
Path(dir, name) == [dir |-> dir, name |-> name]

\* A receiver that keeps every transfer's working files under one fixed
\* name.
StatePathsShared(filename) ==
    [partial |-> Path("data/incoming", <<"upload", ".partial">>),
     st      |-> Path("data/incoming", <<"upload", ".state">>),
     meta    |-> Path("data/incoming", <<"upload", ".meta">>)]

\* receiver.py 35-45
state_paths(filename) ==
    [partial |-> Path("data/incoming", Append(filename, ".partial")),
     st      |-> Path("data/incoming", Append(filename, ".state")),
     meta    |-> Path("data/incoming", Append(filename, ".meta"))]

\* receiver.py 134 and 141: QUAR_DIR / filename, RECEIVED_DIR / filename
QuarPath(filename) == Path("data/quarantine", filename)
ReceivedPath(filename) == Path("data/received", filename)

\* The paths handle_client derives from one filename.
OwnPaths(filename) ==
    {state_paths(filename).partial, state_paths(filename).st,
     state_paths(filename).meta, QuarPath(filename), ReceivedPath(filename)}

\* The logical filenames of the concurrent sessions; one is another's name
\* with a working file's suffix.
Names == {<<"a">>, <<"b">>, <<"a", ".partial">>}
AllPaths == UNION {OwnPaths(f) : f \in Names}

\* The threads run_server starts, and what each one's client sends.
Conns == {1, 2}
DataOf(c) == IF c = 1 THEN <<65, 66, 67>> ELSE <<97>>
IdleConn ==
    [pc |-> "idle", filename |-> <<>>, inq |-> <<>>, out |-> <<>>,
     start_offset |-> 0, last_acked |-> -1, verdict |-> "none"]

\* ------------------------------------------------------------------- history
\* tx: transmissions so far of the chunk the sender is at (of the last chunk
\*   once DONE is sent); it stops counting at CountCap.
\* T: the resume record's offset when this connection was opened.
\* reply: the offset the RESUME line of this connection carried (-1: none).
\* healed: this session reset a partial blob shorter than its record.
\* accepted: sequence numbers validated and written on this connection.
\* rejected: the chunk last read on this connection failed its checksum.
\* lastAck: the last ack sent on this connection that is not all-bits-set.
\* writtenEnd / ackedEnd: offset + length of the chunk last written / of the
\*   chunk whose ack was last sent (-1: none yet).
\* lostOne: the single-lost-ack scenario has lost its ack on this connection.
\* damaged: a chunk header was damaged in transit.
\* finals: finalize steps so far.
\* verdict: the scanner's verdict at the last finalize ("none" before it).
\* clean: some finalize had the verdict clean.
\* lens: the length fields of the chunks of this connection, in the order
\*   of their first transmission.
\* again: this connection was opened after a finalize, with no resume
\*   record and no partial blob in the store.
\* ready: the sender has read READY on this connection.
\* acksTaken: the words of the acks the sender has read on this connection
\*   and taken for the ack of the chunk it was waiting on.
HistoryInit ==
    [tx |-> 0, T |-> 0, reply |-> -1, healed |-> FALSE, accepted |-> {},
     rejected |-> FALSE, lastAck |-> -1, writtenEnd |-> -1, ackedEnd |-> -1, lostOne |-> FALSE,
     damaged |-> FALSE, finals |-> 0, verdict |-> "none", clean |-> FALSE,
     lens |-> <<>>, again |-> FALSE, ready |-> FALSE, acksTaken |-> {}]

\* What a new connection starts from: the per-connection fields reset.
HistoryOfRun ==
    [h EXCEPT !.tx = 0, !.T = IF state.exists THEN state.offset ELSE 0,
              !.reply = -1, !.healed = FALSE, !.accepted = {},
              !.rejected = FALSE, !.lastAck = -1, !.lostOne = FALSE,
              !.lens = <<>>,
              !.again = (h.verdict # "none" /\ ~state.exists
                                            /\ ~partial.exists),
              !.ready = FALSE, !.acksTaken = {}]

\* ---------------------------------------------------------------------- Init
Init ==
    /\ file \in Files
    /\ spc = "idle"
    /\ start_offset = 0
    /\ seq = 0
    /\ offset = 0
    /\ runs = 0
    /\ c2r = <<>>
    /\ r2c = <<>>
    /\ rpc = "closed"
    /\ r_start = 0
    /\ expect_size = 0
    /\ last_acked = -1
    /\ pending = AckRecord(ALL_BITS_SET)
    /\ partial = Absent
    /\ state = NoRecord
    /\ received = Absent
    /\ quarantine = Absent
    /\ h = HistoryInit
    /\ conns = [c \in Conns |-> IdleConn]
    /\ disk = [p \in AllPaths |-> Absent]

\* -------------------------------------------------------------------- sender
\* sender.py 58-62, 39-41: send_file opens the connection and handshake()
\* sends HELLO and RESUME?; run_server accepts and starts handle_client.
\* Sessions of one filename do not overlap (spec section 5: callers avoid
\* concurrent transfers of one filename).
Connect ==
    /\ ~SenderActive
    /\ rpc = "closed"
    /\ runs < MaxRuns
    /\ runs' = runs + 1
    /\ spc' = "resume_wait"
    /\ start_offset' = 0
    /\ seq' = 0
    /\ offset' = 0
    /\ c2r' = <<HelloLine, Line("RESUME?")>>
    /\ r2c' = <<>>
    /\ rpc' = "hello"
    /\ r_start' = 0
    /\ expect_size' = 0
    /\ last_acked' = -1
    /\ pending' = AckRecord(ALL_BITS_SET)
    /\ h' = HistoryOfRun
    /\ UNCHANGED <<file, conns, disk, storeVars>>

\* sender.py 42-49: the RESUME reply, then META.
SRecvResume ==
    /\ spc = "resume_wait"
    /\ r2c # <<>>
    /\ r2c' = Tail(r2c)
    /\ IF Head(r2c).t = "RESUME"
       THEN /\ start_offset' = Head(r2c).offset
            /\ c2r' = Append(c2r, MetaLine(Len(file)))
            /\ spc' = "ready_wait"
       ELSE /\ spc' = "failed"
            /\ UNCHANGED <<start_offset, c2r>>
    /\ UNCHANGED <<file, conns, disk, seq, offset, runs, sessionVars, storeVars, h>>

\* sender.py 74-89 and 107-108: the next chunk at (n, off), or DONE when
\* the cursor is at or past the end of the file; read is what the step has
\* added to the history by reading its record.
SendNext(n, off, read) ==
    IF off < Len(file)
    THEN /\ c2r' = Append(c2r, ChunkRecord(n, off))
         /\ spc' = "wait_ack"
         /\ h' = [read EXCEPT !.tx = 1,
                              !.lens = Append(@, ChunkRecord(n, off).length)]
    ELSE /\ c2r' = Append(c2r, Line("DONE"))
         /\ spc' = "done_wait"
         /\ h' = read

\* sender.py 52-56, 64-73: READY, then the first chunk (or DONE at once).
SRecvReady ==
    /\ spc = "ready_wait"
    /\ r2c # <<>>
    /\ r2c' = Tail(r2c)
    /\ IF Head(r2c).t = "READY"
       THEN /\ seq' = 0
            /\ offset' = start_offset
            /\ SendNext(0, start_offset, [h EXCEPT !.ready = TRUE])
       ELSE /\ spc' = "failed"
            /\ UNCHANGED <<seq, offset, c2r, h>>
    /\ UNCHANGED <<file, conns, disk, start_offset, runs, sessionVars, storeVars>>

\* sender.py 94-96: an ack carrying another sequence number: "continue"
\* goes back to the top of the inner loop, which is the sendall.
OnOtherAck ==
    /\ c2r' = Append(c2r, ChunkRecord(seq, offset))
    /\ h' = [h EXCEPT !.tx = Bump(@)]
    /\ UNCHANGED <<spc, seq, offset>>

\* A sender that takes any ack for the ack of its chunk.
AckMatchesAny(word) == word = word

\* sender.py 94: ack_seq == seq
AckMatches(word) == word = PackU32(seq)

\* sender.py 91-98, 104-105: one ack record read while waiting.
SRecvAck ==
    /\ spc = "wait_ack"
    /\ r2c # <<>>
    /\ r2c' = Tail(r2c)
    /\ IF Head(r2c).t # "ACK!"
       THEN /\ spc' = "failed"
            /\ UNCHANGED <<seq, offset, c2r, h>>
       ELSE IF ~AckMatches(Head(r2c).seq)
       THEN OnOtherAck
       ELSE /\ seq' = seq + 1
            /\ offset' = offset + Len(PayloadAt(offset))
            /\ SendNext(seq + 1, offset + Len(PayloadAt(offset)),
                        [h EXCEPT !.acksTaken = @ \cup {Head(r2c).seq}])
    /\ UNCHANGED <<file, conns, disk, start_offset, runs, sessionVars, storeVars>>

\* A sender whose timeout handler sends the chunk itself before going back
\* to the top of the loop, which sends it again.
OnTimeoutSendsTwice ==
    /\ c2r' = c2r \o <<ChunkRecord(seq, offset), ChunkRecord(seq, offset)>>
    /\ h' = [h EXCEPT !.tx = Bump(Bump(@))]
    /\ UNCHANGED <<spc, seq, offset>>

\* sender.py 99-102: socket.timeout in recv: the loop sends the same
\* header+payload again, whether or not the deadline has passed; nothing
\* counts the retransmissions.
OnTimeout ==
    /\ c2r' = Append(c2r, ChunkRecord(seq, offset))
    /\ h' = [h EXCEPT !.tx = Bump(@)]
    /\ UNCHANGED <<spc, seq, offset>>

STimeout ==
    /\ spc = "wait_ack"
    /\ Outstanding < MaxOutstanding
    /\ OnTimeout
    /\ UNCHANGED <<file, conns, disk, start_offset, runs, r2c, sessionVars, storeVars>>

\* sender.py 109-111: recv_line reads up to the newline that ends DONE_OK;
\* ack bytes still queued before it become part of the line.
SRecvDoneReply ==
    /\ spc = "done_wait"
    /\ \E i \in 1..Len(r2c) :
          /\ r2c[i].t = "DONE_OK"
          /\ \A j \in 1..(i - 1) : r2c[j].t # "DONE_OK"
          /\ r2c' = SubSeq(r2c, i + 1, Len(r2c))
          /\ spc' = IF i = 1 THEN "done" ELSE "failed"
    /\ UNCHANGED <<file, conns, disk, start_offset, seq, offset, runs, c2r, sessionVars,
                   storeVars, h>>

\* recv returns b"" once the receiver has closed and nothing is left to
\* read: ConnectionError in recv_line, struct.error in the ack unpack.
SPeerClosed ==
    /\ SenderActive
    /\ rpc = "closed"
    /\ IF spc = "done_wait"
       THEN \A i \in 1..Len(r2c) : r2c[i].t # "DONE_OK"
       ELSE r2c = <<>>
    /\ spc' = "failed"
    /\ UNCHANGED <<file, conns, disk, start_offset, seq, offset, runs, c2r, r2c,
                   sessionVars, storeVars, h>>

\* sender.py 13, 62: the socket timeout also bounds recv_line, where
\* socket.timeout is not caught.
SLineTimeout ==
    /\ spc \in {"resume_wait", "ready_wait", "done_wait"}
    /\ spc' = "failed"
    /\ UNCHANGED <<file, conns, disk, start_offset, seq, offset, runs, c2r, r2c,
                   sessionVars, storeVars, h>>

\* The sender process is stopped from outside; its socket closes.
Kill ==
    /\ SenderActive
    /\ spc' = "killed"
    /\ UNCHANGED <<file, conns, disk, start_offset, seq, offset, runs, c2r, r2c,
                   sessionVars, storeVars, h>>

\* ------------------------------------------------------------------ receiver
\* A receiver that takes a delivered file for the resume point when there
\* is no record.
ResumeOffsetOfDelivered(st) ==
    IF st.exists THEN st.offset ELSE Len(received.data)

\* receiver.py 47-53
read_resume_offset(st) == IF st.exists THEN st.offset ELSE 0
\* receiver.py 55-56
write_resume_offset(n) == Record(n)

\* receiver.py 180-181: seek(off) and write(payload); a seek past the end
\* leaves a gap of zero bytes.
WriteAt(data, off, payload) ==
    [i \in 1..Max(Len(data), off + Len(payload)) |->
        IF i > off /\ i <= off + Len(payload) THEN payload[i - off]
        ELSE IF i <= Len(data) THEN data[i]
        ELSE 0]

\* The session ends: handle_client returns or raises, the socket closes.
EndSession ==
    /\ rpc' = "closed"
    /\ UNCHANGED <<r_start, expect_size, last_acked, pending>>

\* receiver.py 61-68
RHello ==
    /\ rpc = "hello"
    /\ c2r # <<>>
    /\ c2r' = Tail(c2r)
    /\ IF Head(c2r).t # "HELLO"
       THEN /\ r2c' = Append(r2c, Line("ERR"))
            /\ EndSession
       ELSE IF Head(c2r).version # PROTOCOL_VERSION
       THEN /\ r2c' = Append(r2c, Line("ERR"))
            /\ EndSession
       ELSE /\ rpc' = "resume_q"
            /\ UNCHANGED <<r2c, r_start, expect_size, last_acked, pending>>
    /\ UNCHANGED <<file, conns, disk, senderVars, runs, storeVars, h>>

\* receiver.py 71-78: the reply carries the record as read, before the
\* partial blob is looked at.
RResumeQ ==
    /\ rpc = "resume_q"
    /\ c2r # <<>>
    /\ c2r' = Tail(c2r)
    /\ IF Head(c2r).t # "RESUME?"
       THEN /\ r2c' = Append(r2c, Line("ERR"))
            /\ EndSession
            /\ h' = h
       ELSE /\ r_start' = read_resume_offset(state)
            /\ r2c' = Append(r2c, ResumeLine(read_resume_offset(state)))
            /\ rpc' = "meta"
            /\ h' = [h EXCEPT !.reply = read_resume_offset(state)]
            /\ UNCHANGED <<expect_size, last_acked, pending>>
    /\ UNCHANGED <<file, conns, disk, senderVars, runs, storeVars>>

\* receiver.py 91: "r+b" opens the blob as it is, "w+b" creates it empty.
OpenPartial == IF partial.exists THEN partial.data ELSE <<>>

\* receiver.py 93: the blob is shorter than the resume point.
NeedsReset == r_start # 0 /\ Len(OpenPartial) < r_start

\* receiver.py 81-102
RMeta ==
    /\ rpc = "meta"
    /\ c2r # <<>>
    /\ c2r' = Tail(c2r)
    /\ IF Head(c2r).t # "META"
       THEN /\ r2c' = Append(r2c, Line("ERR"))
            /\ EndSession
            /\ UNCHANGED <<partial, state, h>>
       ELSE /\ expect_size' = Head(c2r).size
            /\ IF NeedsReset
               THEN /\ partial' = Present(<<>>)
                    /\ state' = write_resume_offset(0)
                    /\ r_start' = 0
                    /\ h' = [h EXCEPT !.healed = TRUE]
               ELSE /\ partial' = Present(OpenPartial)
                    /\ UNCHANGED <<state, r_start, h>>
            /\ r2c' = Append(r2c, Line("READY"))
            /\ last_acked' = -1
            /\ rpc' = "loop"
            /\ UNCHANGED pending
    /\ UNCHANGED <<file, conns, disk, senderVars, runs, received, quarantine>>

\* A receiver that answers a failed chunk with that chunk's own number.
MismatchAckOfChunk(m) == AckRecord(m.seq)

\* receiver.py 176: the ack of a chunk that failed the checksum.
MismatchAck(m) ==
    AckRecord(IF last_acked >= 0 THEN PackU32(last_acked) ELSE ALL_BITS_SET)

\* A receiver that persists where the chunk starts, not where it ends.
ResumePointAtStart(m) == m.offset

\* receiver.py 186: the resume point persisted after a write.
ResumePointAfter(m) == m.offset + m.length

\* A receiver that acks the number after the one it received.
AcceptAckOfNext(m) == AckRecord(PackU32(UnpackU32(m.seq) + 1))

\* receiver.py 189: the ack of a chunk validated and written.
AcceptAck(m) == AckRecord(m.seq)

\* receiver.py 173-174
ChecksumOk(m) == crc32_bytes(m.payload) = m.crc

\* receiver.py 155-186: one chunk read; the ack is left to send.
RChunk ==
    /\ rpc = "loop"
    /\ c2r # <<>>
    /\ Head(c2r).t = "CHNK"
    /\ c2r' = Tail(c2r)
    /\ LET m == Head(c2r) IN
       IF ~ChecksumOk(m)
       THEN /\ pending' = MismatchAck(m)
            /\ h' = [h EXCEPT !.rejected = TRUE]
            /\ UNCHANGED <<partial, state, last_acked>>
       ELSE /\ partial' = Present(WriteAt(partial.data, m.offset, m.payload))
            /\ last_acked' = UnpackU32(m.seq)
            /\ state' = write_resume_offset(ResumePointAfter(m))
            /\ pending' = AcceptAck(m)
            /\ h' = [h EXCEPT !.accepted = @ \cup {UnpackU32(m.seq)},
                              !.rejected = FALSE,
                              !.writtenEnd = m.offset + m.length]
    /\ rpc' = "ack"
    /\ UNCHANGED <<file, conns, disk, senderVars, runs, r2c, r_start, expect_size,
                   received, quarantine>>

\* receiver.py 176 and 189: conn.sendall of the ack.
RSendAck ==
    /\ rpc = "ack"
    /\ r2c' = Append(r2c, pending)
    /\ rpc' = "loop"
    /\ h' = IF pending.seq = ALL_BITS_SET THEN h
            ELSE [h EXCEPT !.lastAck = UnpackU32(pending.seq),
                           !.ackedEnd = IF pending.seq = PackU32(last_acked)
                                        THEN h.writtenEnd ELSE @]
    /\ UNCHANGED <<file, conns, disk, senderVars, runs, c2r, r_start, expect_size,
                   last_acked, pending, storeVars>>

\* What the finalize step records of the scanner's verdict.
HistoryOfVerdict(infected) ==
    [h EXCEPT !.finals = Bump(@),
              !.verdict = IF infected THEN "infected" ELSE "clean",
              !.clean = @ \/ ~infected]

\* A receiver that moves the blob to the delivered location whatever the
\* verdict.
FinalizeAlwaysDelivers(infected) ==
    /\ received' = Present(partial.data)
    /\ state' = IF infected THEN state ELSE NoRecord
    /\ UNCHANGED quarantine

\* A receiver whose clean branch leaves the resume record in place.
FinalizeKeepsRecord(infected) ==
    IF infected
    THEN /\ quarantine' = Present(partial.data)
         /\ UNCHANGED <<received, state>>
    ELSE /\ received' = Present(partial.data)
         /\ UNCHANGED <<quarantine, state>>

\* receiver.py 132-149: the blob is renamed over the quarantined or the
\* delivered file; only the clean branch unlinks the resume record.
Finalize(infected) ==
    IF infected
    THEN /\ quarantine' = Present(partial.data)
         /\ UNCHANGED <<received, state>>
    ELSE /\ received' = Present(partial.data)
         /\ state' = NoRecord
         /\ UNCHANGED quarantine

\* receiver.py 120-152: DONE; the scanner's verdict is not the receiver's
\* to choose.
RDone ==
    /\ rpc = "loop"
    /\ c2r # <<>>
    /\ Head(c2r).t = "DONE"
    /\ c2r' = Tail(c2r)
    /\ \E infected \in BOOLEAN :
          /\ Finalize(infected)
          /\ h' = HistoryOfVerdict(infected)
    /\ partial' = Absent
    /\ r2c' = Append(r2c, Line("DONE_OK"))
    /\ EndSession
    /\ UNCHANGED <<file, conns, disk, senderVars, runs>>

\* receiver.py 117-119 and 24-29: a read finds the stream ended (the sender
\* closed and everything sent was read): break, or ConnectionError.
REof ==
    /\ rpc \in {"hello", "resume_q", "meta", "loop"}
    /\ ~SenderActive
    /\ c2r = <<>>
    /\ EndSession
    /\ UNCHANGED <<file, conns, disk, senderVars, runs, c2r, r2c, storeVars, h>>

\* receiver.py 168-169, 191-197: the connection breaks with data still
\* unread or an ack unsent (a reset, a chunk cut short): the exception is
\* caught at the top and the session ends.
RReset ==
    /\ SessionActive
    /\ ~SenderActive
    /\ c2r # <<>> \/ rpc = "ack"
    /\ c2r' = <<>>
    /\ EndSession
    /\ UNCHANGED <<file, conns, disk, senderVars, runs, r2c, storeVars, h>>

\* receiver.py 191-197: any exception during processing (an OSError of the
\* store, say) is caught at the top and the connection is closed; the
\* "with" block closes the blob as written so far.
RFail ==
    /\ rpc \in {"hello", "resume_q", "meta", "loop"}
    /\ SenderActive
    /\ EndSession
    /\ UNCHANGED <<file, conns, disk, senderVars, runs, c2r, r2c, storeVars, h>>

\* ------------------------------------------------------------- specification
SenderStep ==
    \/ Connect
    \/ SRecvResume
    \/ SRecvReady
    \/ SRecvAck
    \/ STimeout
    \/ SRecvDoneReply
    \/ SPeerClosed
    \/ SLineTimeout
    \/ Kill

ReceiverStep ==
    \/ RHello
    \/ RResumeQ
    \/ RMeta
    \/ RChunk
    \/ RSendAck
    \/ RDone
    \/ REof
    \/ RReset
    \/ RFail

Next == SenderStep \/ ReceiverStep

Spec == Init /\ [][Next]_vars

\* ------------------------------------------------------------------- network
\* Faults of the path between the two sockets.  They act on the record at
\* the head of a queue: the next one the reader gets.

\* An ack is lost on its way to the sender.
DropAck ==
    /\ r2c # <<>>
    /\ Head(r2c).t = "ACK!"
    /\ r2c' = Tail(r2c)
    /\ UNCHANGED <<file, conns, disk, senderVars, runs, c2r, sessionVars, storeVars, h>>

IntactChunkAtHead ==
    /\ c2r # <<>>
    /\ Head(c2r).t = "CHNK"
    /\ Head(c2r).mark = "intact"

\* The header faults are single faults: one chunk of a behaviour is hit.
HeaderFault(m) ==
    /\ IntactChunkAtHead
    /\ ~h.damaged
    /\ c2r' = <<m>> \o Tail(c2r)
    /\ h' = [h EXCEPT !.damaged = TRUE]
    /\ UNCHANGED <<file, conns, disk, senderVars, runs, r2c, sessionVars, storeVars>>

ReplaceHead(m) == c2r' = <<m>> \o Tail(c2r)

\* One payload byte of the chunk changes in transit.
CorruptPayload ==
    /\ IntactChunkAtHead
    /\ \E i \in 1..Len(Head(c2r).payload), mask \in FlipMasks :
          ReplaceHead([Head(c2r) EXCEPT
              !.payload[i] = FlipByte(@, mask), !.mark = "payload"])
    /\ UNCHANGED <<file, conns, disk, senderVars, runs, r2c, sessionVars, storeVars, h>>

\* One byte of the header's checksum field changes in transit (byte 0 is
\* the most significant).
CorruptCrc ==
    /\ IntactChunkAtHead
    /\ \E k \in 0..3, mask \in {1} :
          LET half == (k \div 2) + 1
              m16 == IF k % 2 = 0 THEN mask * 256 ELSE mask
          IN  ReplaceHead([Head(c2r) EXCEPT
                  !.crc[half] = Xor16(@, m16), !.mark = "crc"])
    /\ UNCHANGED <<file, conns, disk, senderVars, runs, r2c, sessionVars, storeVars, h>>

\* The lowest byte of the header's sequence number changes in transit.
CorruptSeq ==
    \E mask \in {1, 2} :
        HeaderFault([Head(c2r) EXCEPT
            !.seq[2] = Xor16(@, mask), !.mark = "seq"])

\* The lowest byte of the header's offset changes in transit.
CorruptOffset ==
    \E mask \in {1, 2} :
        HeaderFault([Head(c2r) EXCEPT
            !.offset = XorBits(@, mask, 16), !.mark = "offset"])

\* A path that loses acks and damages payload or checksum bytes.
NextFaulty == Next \/ DropAck \/ CorruptPayload \/ CorruptCrc
SpecFaulty == Init /\ [][NextFaulty]_vars

\* A path that damages the header's sequence number and offset.
NextHeader == Next \/ CorruptSeq \/ CorruptOffset
SpecHeader == Init /\ [][NextHeader]_vars

\* The single-lost-ack scenario: one transfer after another, each run to
\* its end; the path loses the ack of chunk 1 once per connection and
\* nothing else, and a receive timeout fires only when no chunk and no ack
\* is on its way.
DropAckOfChunkOne ==
    /\ r2c # <<>>
    /\ Head(r2c) = AckRecord(PackU32(1))
    /\ ~h.lostOne
    /\ r2c' = Tail(r2c)
    /\ h' = [h EXCEPT !.lostOne = TRUE]
    /\ UNCHANGED <<file, conns, disk, senderVars, runs, c2r, sessionVars, storeVars>>

STimeoutIdle ==
    /\ spc = "wait_ack"
    /\ Outstanding = 0
    /\ OnTimeout
    /\ UNCHANGED <<file, conns, disk, start_offset, runs, r2c, sessionVars, storeVars>>

NextLostAck ==
    \/ Connect
    \/ SRecvResume
    \/ SRecvReady
    \/ SRecvAck
    \/ SRecvDoneReply
    \/ STimeoutIdle
    \/ RHello
    \/ RResumeQ
    \/ RMeta
    \/ RChunk
    \/ RSendAck
    \/ RDone
    \/ DropAckOfChunkOne
SpecLostAck == Init /\ [][NextLostAck]_vars

\* The lossless connection: every record sent arrives as sent, no receive
\* timeout fires, neither process is stopped and the store does not fail.
NextLossless ==
    \/ Connect
    \/ SRecvResume
    \/ SRecvReady
    \/ SRecvAck
    \/ SRecvDoneReply
    \/ RHello
    \/ RResumeQ
    \/ RMeta
    \/ RChunk
    \/ RSendAck
    \/ RDone
SpecLossless == Init /\ [][NextLossless]_vars

\* Transient errors only: receive timeouts fire while the chunk or its ack
\* is still on its way and payload or checksum bytes are damaged, but every
\* record is delivered, neither process is stopped and no socket closes.
NextTransient ==
    \/ NextLossless
    \/ STimeout
    \/ CorruptPayload
    \/ CorruptCrc
SpecTransient == Init /\ [][NextTransient]_vars

\* Stream segmentation: a recv(n) may return fewer than n bytes when the
\* record arrives in more than one segment.  The payload is read in a loop
\* (receiver.py 164-171) and lines byte by byte (recv_line), which RChunk
\* and the line steps cover; the header and the ack are read by one recv.

\* receiver.py 156-159, 191-197: conn.recv(CHUNK_HDR_SIZE) returns n bytes
\* of the header, fewer than asked for; struct.unpack raises struct.error,
\* which the handler's "except Exception" catches, and the socket closes.
RShortHeader ==
    /\ rpc = "loop"
    /\ c2r # <<>>
    /\ Head(c2r).t = "CHNK"
    /\ \E n \in 1..(CHUNK_HDR_SIZE - 1) :
          Len(SubSeq(PackHeader(Head(c2r)), 1, n)) # calcsize(CHUNK_HDR_FMT)
    /\ EndSession
    /\ UNCHANGED <<file, conns, disk, senderVars, runs, c2r, r2c, storeVars,
                   h>>

\* sender.py 91: s.recv(struct.calcsize(ACK_FMT)) returns n bytes of the
\* ack, fewer than asked for; struct.unpack raises struct.error, which the
\* "except (socket.timeout, TimeoutError)" does not catch: send_file ends.
SShortAck ==
    /\ spc = "wait_ack"
    /\ r2c # <<>>
    /\ Head(r2c).t = "ACK!"
    /\ \E n \in 1..(calcsize(ACK_FMT) - 1) :
          Len(SubSeq(PackAck(Head(r2c)), 1, n)) # calcsize(ACK_FMT)
    /\ spc' = "failed"
    /\ UNCHANGED <<file, conns, disk, start_offset, seq, offset, runs, c2r,
                   r2c, sessionVars, storeVars, h>>

NextSegmented ==
    \/ NextLossless
    \/ RShortHeader
    \/ SShortAck
    \/ SPeerClosed
SpecSegmented == Init /\ [][NextSegmented]_vars

\* A path that loses acks, with the scheduling the code has: a record that
\* has arrived is read, an ack computed is sent, a receive timeout fires.
NextLossy == Next \/ DropAck
FairSpec ==
    /\ Init
    /\ [][NextLossy]_vars
    /\ WF_vars(SRecvResume) /\ WF_vars(SRecvReady) /\ WF_vars(SRecvAck)
    /\ WF_vars(STimeout) /\ WF_vars(SRecvDoneReply) /\ WF_vars(SPeerClosed)
    /\ WF_vars(RHello) /\ WF_vars(RResumeQ) /\ WF_vars(RMeta)
    /\ WF_vars(RChunk) /\ WF_vars(RSendAck) /\ WF_vars(RDone)
    /\ WF_vars(REof)

\* --------------------------------------------------------- concurrent sessions
\* run_server (receiver.py 199-208) starts one thread per connection; each
\* runs handle_client with its own locals (conns[c]) on the one store
\* (disk).  A client here sends its whole transfer at once, for a store
\* with no record of its filename: HELLO, RESUME?, META, the chunks, DONE.
oneVars == <<file, senderVars, runs, c2r, r2c, sessionVars, storeVars, h>>

ResumeQLine(f) == [t |-> "RESUME?", filename |-> f]

\* sender.py 74-83 for the chunk number n of the data d.
ChunkOf(d, n) ==
    LET payload == SubSeq(d, n * CHUNK_SIZE + 1,
                          Min((n + 1) * CHUNK_SIZE, Len(d)))
    IN  [t |-> "CHNK", seq |-> PackU32(n), offset |-> n * CHUNK_SIZE,
         length |-> Len(payload), crc |-> crc32_bytes(payload),
         payload |-> payload, mark |-> "intact"]

Script(f, d) ==
    <<HelloLine, ResumeQLine(f), MetaLine(Len(d))>>
    \o [n \in 1..((Len(d) + CHUNK_SIZE - 1) \div CHUNK_SIZE) |->
            ChunkOf(d, n - 1)]
    \o <<Line("DONE")>>

\* receiver.py 206-208: a connection is accepted and its thread started.
\* Sessions running at the same time have distinct filenames; a client
\* may also open with a line that is not HELLO.
TAccept(c, f, wellFormed) ==
    /\ conns[c].pc = "idle"
    /\ \A d \in Conns \ {c} : conns[d].filename # f
    /\ conns' = [conns EXCEPT ![c] =
           [IdleConn EXCEPT !.pc = "hello", !.filename = f,
                            !.inq = IF wellFormed THEN Script(f, DataOf(c))
                                    ELSE <<Line("BOGUS")>>]]
    /\ UNCHANGED <<disk, oneVars>>

Reading(c) == conns[c].inq # <<>>
Closed(c, reply) ==
    [conns[c] EXCEPT !.pc = "closed", !.inq = Tail(@),
                     !.out = Append(@, reply)]

\* receiver.py 61-68
THello(c) ==
    /\ conns[c].pc = "hello"
    /\ Reading(c)
    /\ LET m == Head(conns[c].inq) IN
       conns' = [conns EXCEPT ![c] =
           IF m.t # "HELLO" THEN Closed(c, Line("ERR"))
           ELSE IF m.version # PROTOCOL_VERSION THEN Closed(c, Line("ERR"))
           ELSE [@ EXCEPT !.pc = "resume_q", !.inq = Tail(@)]]
    /\ UNCHANGED <<disk, oneVars>>

\* receiver.py 71-78
TResumeQ(c) ==
    /\ conns[c].pc = "resume_q"
    /\ Reading(c)
    /\ LET m == Head(conns[c].inq) IN
       conns' = [conns EXCEPT ![c] =
           IF m.t # "RESUME?" THEN Closed(c, Line("ERR"))
           ELSE LET n == read_resume_offset(disk[state_paths(m.filename).st])
                IN  [@ EXCEPT !.pc = "meta", !.inq = Tail(@),
                              !.filename = m.filename,
                              !.start_offset = n,
                              !.out = Append(@, ResumeLine(n))]]
    /\ UNCHANGED <<disk, oneVars>>

\* receiver.py 81-102
TMeta(c) ==
    /\ conns[c].pc = "meta"
    /\ Reading(c)
    /\ LET m == Head(conns[c].inq)
           sp == state_paths(conns[c].filename)
           blob == IF disk[sp.partial].exists THEN disk[sp.partial].data
                   ELSE <<>>
           reset == conns[c].start_offset # 0
                    /\ Len(blob) < conns[c].start_offset
       IN  IF m.t # "META"
           THEN /\ conns' = [conns EXCEPT ![c] = Closed(c, Line("ERR"))]
                /\ disk' = disk
           ELSE /\ conns' = [conns EXCEPT ![c] =
                       [@ EXCEPT !.pc = "loop", !.inq = Tail(@),
                                 !.start_offset = IF reset THEN 0 ELSE @,
                                 !.last_acked = -1,
                                 !.out = Append(@, Line("READY"))]]
                /\ disk' = IF reset
                           THEN [disk EXCEPT
                                    ![sp.partial] = Present(<<>>),
                                    ![sp.st] = write_resume_offset(0)]
                           ELSE [disk EXCEPT ![sp.partial] = Present(blob)]
    /\ UNCHANGED oneVars

\* receiver.py 155-189
TChunk(c) ==
    /\ conns[c].pc = "loop"
    /\ Reading(c)
    /\ Head(conns[c].inq).t = "CHNK"
    /\ LET m == Head(conns[c].inq)
           sp == state_paths(conns[c].filename)
           last == conns[c].last_acked
       IN  IF ~ChecksumOk(m)
           THEN /\ conns' = [conns EXCEPT ![c] =
                       [@ EXCEPT !.inq = Tail(@),
                                 !.out = Append(@, AckRecord(
                                     IF last >= 0 THEN PackU32(last)
                                     ELSE ALL_BITS_SET))]]
                /\ disk' = disk
           ELSE /\ conns' = [conns EXCEPT ![c] =
                       [@ EXCEPT !.inq = Tail(@),
                                 !.last_acked = UnpackU32(m.seq),
                                 !.out = Append(@, AckRecord(m.seq))]]
                /\ disk' = [disk EXCEPT
                       ![sp.partial] = Present(WriteAt(disk[sp.partial].data,
                                                       m.offset, m.payload)),
                       ![sp.st] = write_resume_offset(m.offset + m.length)]
    /\ UNCHANGED oneVars

\* receiver.py 120-152
TDone(c) ==
    /\ conns[c].pc = "loop"
    /\ Reading(c)
    /\ Head(conns[c].inq).t = "DONE"
    /\ LET f == conns[c].filename
           sp == state_paths(f)
       IN  \E infected \in BOOLEAN :
             /\ conns' = [conns EXCEPT ![c] =
                    [@ EXCEPT !.pc = "done", !.inq = Tail(@),
                              !.verdict = IF infected THEN "infected"
                                          ELSE "clean",
                              !.out = Append(@, Line("DONE_OK"))]]
             /\ disk' = IF infected
                        THEN [disk EXCEPT ![QuarPath(f)] = disk[sp.partial],
                                          ![sp.partial] = Absent]
                        ELSE [disk EXCEPT
                                 ![ReceivedPath(f)] = disk[sp.partial],
                                 ![sp.partial] = Absent,
                                 ![sp.st] = Absent,
                                 ![sp.meta] = Absent]
    /\ UNCHANGED oneVars

\* receiver.py 118-119, 28-29, 168-169, 191-197: the socket closes or an
\* exception is raised; it is caught at the top and the connection closed.
TFail(c) ==
    /\ conns[c].pc \in {"hello", "resume_q", "meta", "loop"}
    /\ conns' = [conns EXCEPT ![c] = [@ EXCEPT !.pc = "closed",
                                               !.inq = <<>>]]
    /\ UNCHANGED <<disk, oneVars>>

\* One step of the thread of connection c.
SessionStep(c) ==
    \/ THello(c)
    \/ TResumeQ(c)
    \/ TMeta(c)
    \/ TChunk(c)
    \/ TDone(c)
    \/ TFail(c)

NextTwo ==
    \E c \in Conns :
        \/ \E f \in Names, wellFormed \in BOOLEAN : TAccept(c, f, wellFormed)
        \/ SessionStep(c)
SpecTwo == Init /\ [][NextTwo]_vars


\* ----------------------------------------------------------------- claim C1
\* The resume point a restarted sender is given, and whether this run is a
\* restart after an interrupted one.
Resumed == runs >= 2 /\ h.T > 0

\* C1 (resume correctness): a sender stopped at any point and restarted
\* against the same receiver ends with a final file equal, byte for byte,
\* to the source, and a resumed run puts on the wire only chunks whose
\* offsets are at or past T, the prefix the receiver's record held when
\* the run connected.  The final file is the first one a finalize step
\* produces, whichever of the two locations it goes to.
C1_ResumeCorrect ==
    /\ h.finals = 1 =>
          /\ received.exists => received.data = file
          /\ quarantine.exists => quarantine.data = file
    /\ \A i \in 1..Len(c2r) : c2r[i].t = "CHNK" => c2r[i].offset >= h.T

\* A run resumed inside the file has delivered the whole file.
C1_Witness ==
    /\ Resumed
    /\ h.T < Len(file)
    /\ spc = "done"
    /\ h.finals = 1
    /\ received = Present(file)

\* ----------------------------------------------------------------- claim C2
\* C2 (self-healing resume lookup): when the session finds the partial blob
\* shorter than the record (or missing) and resets both, the RESUME line
\* of that connection carries 0.
C2_HealedReplyIsZero == h.healed => h.reply = 0

\* ----------------------------------------------------------------- claim C3
\* A chunk read whose computed checksum differs from the declared one.
RejectStep == RChunk /\ ~ChecksumOk(Head(c2r))

\* C3 (rejection of a bad chunk): a chunk that fails its checksum is not
\* written, leaves blob, resume record and last_acked as they were, and is
\* answered with the last accepted sequence number, or all-bits-set when
\* nothing was accepted on this connection; and every ack that carries a
\* sequence number carries one validated and written on this connection.
C3_BadChunkRejected ==
    /\ [][RejectStep =>
            /\ UNCHANGED <<partial, state, last_acked>>
            /\ pending' = AckRecord(IF last_acked >= 0
                                    THEN PackU32(last_acked)
                                    ELSE ALL_BITS_SET)]_vars
    /\ [][RSendAck => r2c' = Append(r2c, pending)]_vars
    /\ [](\A i \in 1..Len(r2c) :
             (r2c[i].t = "ACK!" /\ r2c[i].seq # ALL_BITS_SET)
                => UnpackU32(r2c[i].seq) \in h.accepted)

\* A chunk was rejected after another had been accepted, and the ack of
\* the accepted one is about to be sent again.
C3_Witness ==
    /\ rpc = "ack"
    /\ h.rejected
    /\ last_acked >= 0
    /\ pending = AckRecord(PackU32(last_acked))

\* ----------------------------------------------------------------- claim C4
\* C4 (chunk integrity): a chunk with one byte damaged in transit, in the
\* header or in the payload, is rejected: the step that reads it writes
\* nothing and does not move the resume record.
C4_DamagedChunkRejected ==
    [][(RChunk /\ Head(c2r).mark # "intact") =>
          UNCHANGED <<partial, state>>]_vars

\* ----------------------------------------------------------------- claim C5
\* An ack that carries a sequence number is sent.
NumberedAckStep == RSendAck /\ pending.seq # ALL_BITS_SET

\* C5 as claimed (acknowledgment ordering): the numbers of the acks the
\* receiver sends are strictly increasing with no gaps: each is the number
\* of the ack before plus one, starting at 0.
C5_AcksStrictlyIncreasing ==
    [][NumberedAckStep => UnpackU32(pending.seq) = h.lastAck + 1]_vars

\* C5 as amended: on a connection that delivers chunk headers intact, the
\* numbers of the acks the receiver sends (all-bits-set acks left out)
\* start at 0 and each repeats the one before or is the one before plus
\* one; the numbers acked are the numbers accepted, a gapless run from 0
\* that ends at the sender's current chunk or the one before it.
C5_AcksInOrder ==
    /\ [][NumberedAckStep =>
            /\ UnpackU32(pending.seq) >= 0
            /\ UnpackU32(pending.seq) \in {h.lastAck, h.lastAck + 1}]_vars
    /\ [](/\ h.accepted = 0..last_acked
          /\ h.lastAck <= last_acked
          /\ last_acked <= seq
          /\ seq <= h.lastAck + 1)

\* The ack of one chunk is in the connection twice.
C5_Witness ==
    \E i, j \in 1..Len(r2c) :
        /\ i < j
        /\ r2c[i].t = "ACK!"
        /\ r2c[i].seq # ALL_BITS_SET
        /\ r2c[i] = r2c[j]

\* ----------------------------------------------------------------- claim C6
\* The record holds a resume point written after a chunk (the reset of a
\* short blob writes 0; a chunk has at least one byte).
RecordOfChunk == state.exists /\ state.offset > 0

\* C6 as claimed (no speculative advance): the resume record holds offset +
\* length of the chunk whose ack was sent last.
C6_RecordIsOfAckedChunk == RecordOfChunk => state.offset = h.ackedEnd

\* C6 as amended: the resume record holds offset + length of the chunk
\* validated and written last, and it is written before that chunk's ack
\* is sent: when the ack of an accepted chunk goes out, the record already
\* holds that chunk's end.
C6_RecordIsOfWrittenChunk ==
    /\ [](RecordOfChunk => state.offset = h.writtenEnd)
    /\ [][(RSendAck /\ pending.seq = PackU32(last_acked)) =>
            (RecordOfChunk /\ state.offset = h.writtenEnd
                           /\ h'.ackedEnd = state.offset)]_vars

\* The record is ahead of the last ack sent: the chunk is written and
\* recorded, its ack not yet sent.
C6_Witness ==
    /\ rpc = "ack"
    /\ ~h.rejected
    /\ RecordOfChunk
    /\ state.offset = h.writtenEnd
    /\ h.ackedEnd < state.offset

\* ----------------------------------------------------------------- claim C7
\* C7 (durable resume offset): whenever the resume record holds N, the
\* partial blob holds at least N bytes.
C7_RecordWithinBlob ==
    state.exists => (partial.exists /\ Len(partial.data) >= state.offset)

\* ----------------------------------------------------------------- claim C8
\* C8 (bounded retransmission): the sender does not stay on one chunk for
\* ever: waiting for the ack of chunk n, it gets the ack or gives up.
C8_RetransmissionEnds ==
    \A n \in SeqNos :
        (spc = "wait_ack" /\ seq = n) ~> ~(spc = "wait_ack" /\ seq = n)

\* ----------------------------------------------------------------- claim C9
\* The sender reads an ack that carries another number than the one it
\* waits for.
OtherAckStep ==
    SRecvAck /\ Head(r2c).t = "ACK!" /\ Head(r2c).seq # PackU32(seq)

\* C9 (stale ack handling): an ack with another sequence number is
\* discarded: the sender keeps waiting and sends nothing.
C9_OtherAckDiscarded ==
    [][OtherAckStep => (c2r' = c2r /\ spc' = "wait_ack" /\ h'.tx = h.tx)]_vars

\* ---------------------------------------------------------------- claim C10
\* The sender reads the ack it waits for and leaves the chunk.
AdvanceStep == SRecvAck /\ Head(r2c) = AckRecord(PackU32(seq))

\* C10 (single lost ack): with the ack of chunk 1 lost once and nothing
\* else, the sender leaves chunk 1 after exactly two transmissions and
\* every other chunk after exactly one, and the first file finalized
\* equals the source, as in the run without loss.
C10_OneRetransmission ==
    /\ [][AdvanceStep =>
            h.tx = (IF seq = 1 /\ h.lostOne THEN 2 ELSE 1)]_vars
    /\ [](h.finals = 1 =>
            /\ received.exists => received.data = file
            /\ quarantine.exists => quarantine.data = file)

\* A transfer of three chunks that lost the ack of chunk 1 has completed.
C10_Witness ==
    /\ runs = 1
    /\ Len(file) > 2 * CHUNK_SIZE
    /\ h.lostOne
    /\ spc = "done"
    /\ seq = 3
    /\ h.tx = 1
    /\ received = Present(file)

\* ---------------------------------------------------------------- claim C11
\* The finalize step of a session whose scanner verdict is infected.
InfectedFinalize == RDone /\ h'.verdict = "infected"

\* C11 (quarantine routing): a finalize with the verdict infected moves the
\* assembled blob to the quarantine location, leaves the delivered location
\* as it was and still sends DONE_OK; while no verdict was clean the
\* delivered location holds nothing.
C11_InfectedIsQuarantined ==
    /\ [][InfectedFinalize =>
            /\ quarantine' = Present(partial.data)
            /\ received' = received
            /\ partial' = Absent
            /\ r2c' = Append(r2c, Line("DONE_OK"))]_vars
    /\ [](~h.clean => ~received.exists)

\* The sender has completed a transfer whose file went to quarantine only.
C11_Witness ==
    /\ spc = "done"
    /\ Len(file) > CHUNK_SIZE
    /\ h.verdict = "infected"
    /\ quarantine = Present(file)
    /\ ~received.exists

\* ---------------------------------------------------------------- claim C12
\* C12 (finalize routing and cleanup): every finalize step moves the
\* assembled blob to exactly one of the delivered and quarantine locations,
\* the other being left as it was, and leaves no partial blob; with the
\* verdict clean the resume record is deleted too, so that whenever the
\* DONE_OK of a clean finalize is in the connection there is neither a
\* record nor a partial blob.  (receiver.py never creates the metadata
\* record it unlinks at 149-150, so the store holds none.)
C12_FinalizeRoutes ==
    /\ [][RDone =>
            /\ partial' = Absent
            /\ r2c' = Append(r2c, Line("DONE_OK"))
            /\ h'.verdict = "clean" =>
                  /\ received' = Present(partial.data)
                  /\ quarantine' = quarantine
                  /\ state' = NoRecord
            /\ h'.verdict = "infected" =>
                  /\ quarantine' = Present(partial.data)
                  /\ received' = received]_vars
    /\ [](\A i \in 1..Len(r2c) :
            (r2c[i].t = "DONE_OK" /\ h.verdict = "clean") =>
                (state = NoRecord /\ partial = Absent))

\* A clean finalize of a file of more than one chunk has replied.
C12_Witness ==
    /\ Len(file) > CHUNK_SIZE
    /\ h.verdict = "clean"
    /\ r2c # <<>>
    /\ r2c[Len(r2c)].t = "DONE_OK"
    /\ received = Present(file)
    /\ ~quarantine.exists
    /\ state = NoRecord
    /\ partial = Absent

\* ---------------------------------------------------------------- claim C13
\* ceil(size / CHUNK_SIZE)
ChunksOf(size) == (size + CHUNK_SIZE - 1) \div CHUNK_SIZE

\* C13 (lossless transfer): on a lossless connection opened with no resume
\* record, a file of size S goes out as exactly ceil(S / CHUNK_SIZE) chunks
\* numbered 0..n-1, each transmitted once; every ack the sender reads is
\* the ack of the chunk it waits for, so it reads one ack per chunk in
\* order; the sender completes, and the file finalized has the source's
\* size and content.
C13_Lossless ==
    /\ [](h.T = 0 =>
            /\ spc # "failed"
            /\ \A i \in 1..Len(c2r) : c2r[i].t = "CHNK" =>
                  /\ c2r[i].seq = PackU32(seq)
                  /\ seq < ChunksOf(Len(file))
                  /\ h.tx = 1
            /\ spc \in {"done_wait", "done"} =>
                  /\ seq = ChunksOf(Len(file))
            /\ spc = "done" =>
                  /\ h.accepted = 0..(ChunksOf(Len(file)) - 1)
                  /\ h.lastAck = ChunksOf(Len(file)) - 1
                  /\ h.verdict = "clean" => received = Present(file)
                  /\ h.verdict = "infected" => quarantine = Present(file))
    /\ [][(h.T = 0 /\ SRecvAck) =>
            /\ Head(r2c) = AckRecord(PackU32(seq))
            /\ h.tx = 1
            /\ seq' = seq + 1]_vars

\* A file of three chunks, the last one short, has been delivered.
C13_Witness ==
    /\ runs = 1
    /\ Len(file) = 2 * CHUNK_SIZE + 1
    /\ spc = "done"
    /\ seq = 3
    /\ h.accepted = {0, 1, 2}
    /\ received = Present(file)

\* ---------------------------------------------------------------- claim C14
RECURSIVE SumTo(_, _)
\* The sum of the first n entries of a sequence of numbers.
SumTo(lens, n) == IF n = 0 THEN 0 ELSE SumTo(lens, n - 1) + lens[n]

\* The chunk records the sender has put in the connection.
ChunksInFlight == {c2r[i] : i \in {j \in 1..Len(c2r) : c2r[j].t = "CHNK"}}

\* C14 as claimed (chunk offsets are contiguous): in every transfer, fresh
\* or resumed, the offset field of chunk N is the sum of the length fields
\* of the chunks numbered below N in that transfer.
C14_OffsetIsSumOfLengths ==
    \A m \in ChunksInFlight :
        /\ UnpackU32(m.seq) < Len(h.lens)
        /\ m.offset = SumTo(h.lens, UnpackU32(m.seq))

\* C14 as amended: in every transfer the offset field of chunk N is the
\* resume offset the transfer started from plus the sum of the length
\* fields of the chunks numbered below N in that transfer (the absolute
\* position in the file; the plain sum in a fresh transfer only), and
\* sequence numbers start at 0 and go up by one per chunk.
C14_OffsetIsStartPlusLengths ==
    /\ \A m \in ChunksInFlight :
          /\ UnpackU32(m.seq) < Len(h.lens)
          /\ m.length = h.lens[UnpackU32(m.seq) + 1]
          /\ m.offset = start_offset + SumTo(h.lens, UnpackU32(m.seq))
    /\ spc = "wait_ack" => Len(h.lens) = seq + 1
    /\ spc \in {"done_wait", "done"} => Len(h.lens) = seq

\* A resumed transfer has its second chunk in the connection.
C14_Witness ==
    /\ start_offset > 0
    /\ \E m \in ChunksInFlight :
          /\ m.seq = PackU32(1)
          /\ m.offset = start_offset + h.lens[1]

\* ---------------------------------------------------------------- claim C15
\* C15 (idempotent completion): a connection opened after a transfer has
\* completed and left neither resume record nor partial blob is handled as
\* a fresh transfer: the RESUME reply carries 0, nothing is reset, the blob
\* is created empty at META, every chunk sent starts from offset 0 on, the
\* DONE (after chunks, or with none for an empty file) is answered DONE_OK
\* and the file finalized equals the source; neither side fails.
C15_CompletionIsRepeatable ==
    /\ [](h.again =>
            /\ h.reply \in {-1, 0}
            /\ ~h.healed
            /\ spc # "failed"
            /\ spc \in {"ready_wait", "wait_ack", "done_wait", "done"} =>
                  start_offset = 0
            /\ spc = "done" =>
                  /\ h.verdict = "clean" => received = Present(file)
                  /\ h.verdict = "infected" => quarantine = Present(file))
    /\ [][(h.again /\ RMeta) =>
            (partial' = Present(<<>>) /\ rpc' = "loop"
                                      /\ state' = NoRecord)]_vars
    /\ [][(h.again /\ RDone) => r2c' = Append(r2c, Line("DONE_OK"))]_vars

\* The second transfer of a non-empty file has completed after a first one
\* that was cleaned up.
C15_Witness ==
    /\ h.again
    /\ runs = 2
    /\ Len(file) > CHUNK_SIZE
    /\ spc = "done"
    /\ h.finals = 2
    /\ received = Present(file)

\* The same for the empty file: DONE with no chunk.
C15_WitnessNoChunk ==
    /\ h.again
    /\ Len(file) = 0
    /\ spc = "done"
    /\ h.finals = 2

\* ---------------------------------------------------------------- claim C16
\* The final file of a finished session, by its verdict.
FinalOf(c) ==
    IF conns[c].verdict = "infected" THEN disk[QuarPath(conns[c].filename)]
    ELSE disk[ReceivedPath(conns[c].filename)]

\* C16 (connection isolation): for sessions running at the same time on
\* distinct filenames, under every interleaving, a step of one session
\* changes no path but those of its own filename and no other session's
\* locals; the working and final paths of distinct filenames are distinct;
\* and whatever the other session does (finish, protocol error, failure),
\* a session's partial blob holds a prefix of its own data with the record
\* at its end, and a finished session's final file is its own data.
C16_SessionsIsolated ==
    /\ [][\A c \in Conns : SessionStep(c) =>
            /\ \A p \in AllPaths \ OwnPaths(conns[c].filename) :
                  disk'[p] = disk[p]
            /\ \A d \in Conns \ {c} : conns'[d] = conns[d]]_vars
    /\ [](\A f, g \in Names : f # g => OwnPaths(f) \cap OwnPaths(g) = {})
    /\ [](\A c \in Conns :
            LET sp == state_paths(conns[c].filename)
                blob == disk[sp.partial]
            IN  /\ conns[c].pc = "loop" =>
                      /\ blob.exists
                      /\ blob.data = SubSeq(DataOf(c), 1, Len(blob.data))
                      /\ read_resume_offset(disk[sp.st]) = Len(blob.data)
                /\ conns[c].pc = "done" =>
                      /\ FinalOf(c) = Present(DataOf(c))
                      /\ ~blob.exists)

\* One session has delivered a.partial while the session of a, which had
\* written a chunk, failed.
C16_Witness ==
    /\ conns[1].filename = <<"a", ".partial">>
    /\ conns[1].pc = "done"
    /\ conns[1].verdict = "clean"
    /\ conns[2].filename = <<"a">>
    /\ conns[2].pc = "closed"
    /\ disk[state_paths(<<"a">>).partial] = Present(DataOf(2))
    /\ disk[ReceivedPath(<<"a", ".partial">>)] = Present(DataOf(1))

\* ---------------------------------------------------------------- claim C17
\* C17 (transient errors are recovered): with ack timeouts and chunk
\* corruptions only, every record delivered and no socket closed, the
\* transfer completes; in particular the sender never ends in an error.
C17_SenderNeverFails == spc # "failed"

\* ---------------------------------------------------------------- claim C18
\* The ack records in the connection.
AcksInFlight == {r2c[i] : i \in {j \in 1..Len(r2c) : r2c[j].t = "ACK!"}}

\* C18 as claimed (wire format size): the chunk header that sender and
\* receiver encode and decode is exactly 21 bytes.
C18_HeaderIs21Bytes == \A m \in ChunksInFlight : Len(PackHeader(m)) = 21

\* C18 as amended: the chunk header is exactly 24 bytes, the concatenation
\* of a 4-byte tag, a 4-byte sequence number, an 8-byte offset, a 4-byte
\* length and a 4-byte checksum, and the ack record is exactly 8 bytes;
\* both sides compute these sizes from the same formats, and unpacking a
\* packed record gives its fields back.
C18_HeaderIs24Bytes ==
    /\ CHUNK_HDR_SIZE = 24
    /\ calcsize(ACK_FMT) = 8
    /\ \A m \in ChunksInFlight :
          LET bytes == PackHeader(m) IN
          /\ Len(bytes) = 24
          /\ Len(bytes) = CHUNK_HDR_SIZE
          /\ Len(FieldBytes(CHUNK_HDR_FMT, bytes, 1)) = 4
          /\ Len(FieldBytes(CHUNK_HDR_FMT, bytes, 2)) = 4
          /\ Len(FieldBytes(CHUNK_HDR_FMT, bytes, 3)) = 8
          /\ Len(FieldBytes(CHUNK_HDR_FMT, bytes, 4)) = 4
          /\ Len(FieldBytes(CHUNK_HDR_FMT, bytes, 5)) = 4
          /\ StructUnpack(CHUNK_HDR_FMT, bytes) = HeaderValues(m)
    /\ \A a \in AcksInFlight :
          /\ Len(PackAck(a)) = 8
          /\ StructUnpack(ACK_FMT, PackAck(a)) = AckValues(a)

\* A chunk at a non-zero offset and an ack are in the connection.
C18_Witness ==
    /\ \E m \in ChunksInFlight : m.offset > 0 /\ m.seq = PackU32(1)
    /\ AcksInFlight # {}

\* ---------------------------------------------------------------- claim C19
\* C19 (stop-and-wait ordering on the sender): a chunk is in the connection
\* only after the sender has read READY and has read an ack carrying each
\* lower sequence number (the ack on which it left that chunk); DONE is in the connection only after READY and
\* after the ack carrying the last chunk's number was read, or with no
\* chunk sent at all when the resume offset is at or past the file's size.
C19_StopAndWait ==
    /\ \A m \in ChunksInFlight :
          /\ h.ready
          /\ \A k \in 0..(UnpackU32(m.seq) - 1) : PackU32(k) \in h.acksTaken
    /\ \A i \in 1..Len(c2r) : c2r[i].t = "DONE" =>
          /\ h.ready
          /\ IF h.lens = <<>>
             THEN start_offset >= Len(file)
             ELSE /\ PackU32(Len(h.lens) - 1) \in h.acksTaken
                  /\ start_offset + SumTo(h.lens, Len(h.lens)) = Len(file)
    /\ spc \in {"wait_ack", "done_wait", "done"} => h.ready

\* DONE is in the connection after three chunks were sent and acked.
C19_Witness ==
    /\ Len(h.lens) = 3
    /\ c2r # <<>>
    /\ c2r[Len(c2r)].t = "DONE"
    /\ h.acksTaken = {PackU32(0), PackU32(1), PackU32(2)}

\* The same with no chunk: a resumed transfer that had nothing left to send.
C19_WitnessNoChunk ==
    /\ start_offset > 0
    /\ h.lens = <<>>
    /\ c2r # <<>>
    /\ c2r[Len(c2r)].t = "DONE"

\* ---------------------------------------------------------------- claim C20
\* C20 (independence from stream segmentation): however the byte stream is
\* split across socket reads, the outcome is that of whole reads: as on
\* the lossless connection, the sender never ends in an error and a
\* session ends only by finalizing, which leaves no partial blob.
C20_OutcomeAsWholeReads ==
    /\ spc # "failed"
    /\ rpc = "closed" => ~partial.exists

====
